---- MODULE Spec2Model ----
(***************************************************************************)
(* Model of the San Jose police-calls dashboard (src/app.py).              *)
(*                                                                         *)
(* The table police_calls is a bag of call records.  Timestamps are whole  *)
(* seconds since 2024-01-01 00:00, which is a Monday; dates are whole days *)
(* since that day.  Each load_* function is an operator that evaluates its *)
(* SQL query (and its pandas post-processing) on the bag; a data frame is  *)
(* a sequence of row records.                                              *)
(***************************************************************************)
EXTENDS Integers, Sequences, FiniteSets, Bags, TLC

VARIABLES
    police_calls,          \* the table: bag of call records
    phase,                 \* "fill" while the table is written, then the name of the view loaded
    heatmap_data,          \* data frame of load_heatmap_data
    heatmap_pivot,         \* heatmap_data pivoted to hour x day for the chart
    risk_data,             \* data frame of load_risk_data
    call_type_data,        \* data frame of load_call_type_data
    response_data,         \* data frame of load_response_time_data
    pareto_data,           \* data frame of load_pareto_data
    locations_for_80pct,   \* the "Locations for 80% of Calls" metric
    chain_data,            \* data frame of load_incident_chain_data
    response_call,         \* the last call of load_response_time_data: arguments and outcome
    db_up,                 \* whether pymysql.connect succeeds
    broken,                \* the aggregators whose query the data source rejects
    users,                 \* the browser sessions that run the script
    connection,            \* the st.cache_resource entry of get_database_connection
    data_cache,            \* the st.cache_data entries: key <<aggregator, date range>>, time stored
    now,                   \* the clock of the process, in seconds
    computed_at,           \* history: per key, when its query last returned (NULL: never)
    fresh,                 \* history: the keys whose query returned since the last Refresh
    run,                   \* per session: the script run in progress or last finished
    iso                    \* per session: the same runs in a process of its own

dataVars == <<police_calls, phase, heatmap_data, heatmap_pivot, risk_data, call_type_data,
              response_data, pareto_data, locations_for_80pct, chain_data, response_call>>

appVars == <<db_up, broken, users, connection, data_cache, now, computed_at, fresh, run, iso>>

vars == <<dataVars, appVars>>

----------------------------------------------------------------------------
(* Values and time *)

NULL == -1                     \* SQL NULL / pandas NaN for a non-negative field

SecondsPerMinute == 60
MinutesPerHour == 60
HoursPerDay == 24
SecondsPerHour == SecondsPerMinute * MinutesPerHour
SecondsPerDay == SecondsPerHour * HoursPerDay

\* the default of the sidebar's date_input: 2024-01-01 .. 2024-11-26
DefaultStart == 0
DefaultEnd == 330

\* CURDATE() of the data source: 2024-12-01
Today == 335

Midnight(d) == d * SecondsPerDay
At(d, h, m) == d * SecondsPerDay + h * SecondsPerHour + m * SecondsPerMinute

DATE(t) == t \div SecondsPerDay
HOUR(t) == (t \div SecondsPerHour) % HoursPerDay

day_order == <<"Monday", "Tuesday", "Wednesday", "Thursday", "Friday", "Saturday", "Sunday">>

DAYNAME(t) == day_order[(DATE(t) % 7) + 1]

\* FIELD(day, 'Monday', ..., 'Sunday')
FIELD(day) == CHOOSE i \in 1..7 : day_order[i] = day

\* DATEDIFF(a, b): whole calendar days from date b to date a
DATEDIFF(da, db) == da - db

\* TIMESTAMPDIFF(unit, a, b) for a <= b or a > b: whole units, truncated toward zero
TruncDiv(x, u) == IF x >= 0 THEN x \div u ELSE -((-x) \div u)
TIMESTAMPDIFF_MINUTE(a, b) == TruncDiv(b - a, SecondsPerMinute)
TIMESTAMPDIFF_HOUR(a, b) == TruncDiv(b - a, SecondsPerHour)

\* ROUND(a / b) for a >= 0, b > 0: half away from zero
RoundDiv(a, b) == (2 * a + b) \div (2 * b)

----------------------------------------------------------------------------
(* The table *)

Call(addr, type, t, disp, prio) ==
    [address |-> addr, call_type |-> type, call_datetime |-> t,
     dispatch_datetime |-> disp, priority |-> prio]

\* WHERE call_datetime BETWEEN %s AND %s, the parameters being dates
InWindow(r, start_date, end_date) ==
    /\ Midnight(start_date) <= r.call_datetime
    /\ r.call_datetime <= Midnight(end_date)

Rows(calls) == BagToSet(calls)

\* COUNT(*) over the records of the bag that satisfy Test
RECURSIVE SumOver(_, _)
SumOver(S, f) ==
    IF S = {} THEN 0
    ELSE LET x == CHOOSE y \in S : TRUE
         IN  f[x] + SumOver(S \ {x}, f)

CountWhere(calls, Test(_)) ==
    LET S == {r \in Rows(calls) : Test(r)}
    IN  SumOver(S, [r \in S |-> CopiesIn(r, calls)])

SumWhere(calls, Test(_), Val(_)) ==
    LET S == {r \in Rows(calls) : Test(r)}
    IN  SumOver(S, [r \in S |-> CopiesIn(r, calls) * Val(r)])

\* ORDER BY: the rows of S in ascending order of Key, which is unique on S
OrderBy(S, Key(_)) ==
    [i \in 1..Cardinality(S) |->
        CHOOSE x \in S : Cardinality({y \in S : Key(y) < Key(x)}) = i - 1]

\* ORDER BY with a strict total order Less on S
OrderByLess(S, Less(_, _)) ==
    LET before == [x \in S |-> Cardinality({y \in S : Less(y, x)})]
    IN  [i \in 1..Cardinality(S) |-> CHOOSE x \in S : before[x] = i - 1]

\* the rows of the table one by one: <<record, number of the copy>>
Expand(calls) == UNION {{<<r, j>> : j \in 1..CopiesIn(r, calls)} : r \in Rows(calls)}

\* LIMIT n
Limit(df, n) == IF Len(df) <= n THEN df ELSE SubSeq(df, 1, n)

Insert(calls, r, k) == calls (+) [x \in {r} |-> k]

----------------------------------------------------------------------------
(* load_heatmap_data *)

\* the query without its WHERE clause
load_heatmap_data_unfiltered(calls, start_date, end_date) ==
    LET groups == {<<HOUR(r.call_datetime), DAYNAME(r.call_datetime)>> : r \in Rows(calls)}
        InGroup(g, r) == /\ HOUR(r.call_datetime) = g[1]
                         /\ DAYNAME(r.call_datetime) = g[2]
        rows == {[hour |-> g[1], day |-> g[2],
                  calls |-> CountWhere(calls, LAMBDA r : InGroup(g, r))] : g \in groups}
        Key(row) == row.hour * 7 + FIELD(row.day)
    IN  OrderBy(rows, Key)

load_heatmap_data(calls, start_date, end_date) ==
    LET InW(r) == InWindow(r, start_date, end_date)
        groups == {<<HOUR(r.call_datetime), DAYNAME(r.call_datetime)>> :
                      r \in {x \in Rows(calls) : InW(x)}}
        InGroup(g, r) == /\ InW(r)
                         /\ HOUR(r.call_datetime) = g[1]
                         /\ DAYNAME(r.call_datetime) = g[2]
        rows == {[hour |-> g[1], day |-> g[2],
                  calls |-> CountWhere(calls, LAMBDA r : InGroup(g, r))] : g \in groups}
        Key(row) == row.hour * 7 + FIELD(row.day)
    IN  OrderBy(rows, Key)

\* heatmap_data.pivot(index='hour', columns='day', values='calls'), columns
\* reordered to day_order "keeping only existing days"; a missing cell is NaN
heatmap_pivot_of(df) ==
    LET hours == {df[i].hour : i \in 1..Len(df)}
        days == {df[i].day : i \in 1..Len(df)}
        Cell(h, d) == IF \E i \in 1..Len(df) : df[i].hour = h /\ df[i].day = d
                      THEN (CHOOSE row \in {df[i] : i \in 1..Len(df)} :
                                row.hour = h /\ row.day = d).calls
                      ELSE NULL
    IN  [index |-> OrderBy(hours, LAMBDA h : h),
         columns |-> OrderBy(days, FIELD),
         values |-> [c \in hours \X days |-> Cell(c[1], c[2])]]

EmptyPivot == [index |-> <<>>, columns |-> <<>>, values |-> <<>>]

----------------------------------------------------------------------------
(* load_incident_chain_data *)

ChainHours == 24
ChainMinIncidents == 3
ChainLimit == 15

\* PARTITION BY address ORDER BY call_datetime; rows of equal time in the
\* order of priority and copy number
PartitionOf(calls, addr, start_date, end_date) ==
    LET S == {x \in Expand(calls) :
                /\ InWindow(x[1], start_date, end_date)
                /\ x[1].address # NULL
                /\ x[1].address = addr}
        Less(x, y) ==
            \/ x[1].call_datetime < y[1].call_datetime
            \/ /\ x[1].call_datetime = y[1].call_datetime
               /\ \/ x[1].priority < y[1].priority
                  \/ x[1].priority = y[1].priority /\ x[2] < y[2]
    IN  OrderByLess(S, Less)

\* the CTE incident_chains for one address: LAG and LEAD of call_datetime
incident_chains(calls, addr, start_date, end_date) ==
    LET part == PartitionOf(calls, addr, start_date, end_date)
    IN  [i \in 1..Len(part) |->
            [address |-> addr,
             call_datetime |-> part[i][1].call_datetime,
             priority |-> part[i][1].priority,
             prev_call_time |-> IF i > 1 THEN part[i - 1][1].call_datetime ELSE NULL,
             next_call_time |-> IF i < Len(part) THEN part[i + 1][1].call_datetime ELSE NULL]]

\* WHERE TIMESTAMPDIFF(HOUR, prev, t) <= 24 OR TIMESTAMPDIFF(HOUR, t, next) <= 24;
\* a comparison with NULL is not true
ChainLinked(row) ==
    \/ /\ row.prev_call_time # NULL
       /\ TIMESTAMPDIFF_HOUR(row.prev_call_time, row.call_datetime) <= ChainHours
    \/ /\ row.next_call_time # NULL
       /\ TIMESTAMPDIFF_HOUR(row.call_datetime, row.next_call_time) <= ChainHours

Min(S) == CHOOSE x \in S : \A y \in S : x <= y

load_incident_chain_data(calls, start_date, end_date) ==
    LET addrs == {r.address : r \in {x \in Rows(calls) :
                      InWindow(x, start_date, end_date) /\ x.address # NULL}}
        Linked(a) == LET ic == incident_chains(calls, a, start_date, end_date)
                     IN  {i \in 1..Len(ic) : ChainLinked(ic[i])}
        chains_24h == {a \in addrs : Cardinality(Linked(a)) >= ChainMinIncidents}
        Row(a) == LET ic == incident_chains(calls, a, start_date, end_date)
                      n == Cardinality(Linked(a))
                  IN  [address |-> a,
                       incidents_24h |-> n,
                       highest_priority |-> Min({ic[i].priority : i \in Linked(a)}),
                       chain_length |-> RoundDiv(n, 2)]
        rows == {Row(a) : a \in chains_24h}
        Less(x, y) == \/ x.incidents_24h > y.incidents_24h
                      \/ x.incidents_24h = y.incidents_24h /\ x.address < y.address
    IN  Limit(OrderByLess(rows, Less), ChainLimit)

----------------------------------------------------------------------------
(* load_risk_data; risk_score is held in hundredths *)

RiskMinCalls == 10
SeverePriority == 2
RecentDays == 7
RiskLimit == 25

\* the recency bonus given up to and including the seventh day
risk_score_inclusive(total_calls, severe_calls, sum_priority, days_since_last) ==
    RoundDiv(30 * total_calls * total_calls
                + 200 * severe_calls * total_calls
                + 1000 * sum_priority
                + (IF days_since_last <= RecentDays THEN 1500 * total_calls ELSE 0),
             total_calls)

\* ROUND(total_calls * 0.3 + severe_calls * 2.0 + avg_priority * 10
\*       + CASE WHEN days_since_last < 7 THEN 15 ELSE 0 END, 2) * 100,
\* avg_priority being sum_priority / total_calls
risk_score(total_calls, severe_calls, sum_priority, days_since_last) ==
    RoundDiv(30 * total_calls * total_calls
                + 200 * severe_calls * total_calls
                + 1000 * sum_priority
                + (IF days_since_last < RecentDays THEN 1500 * total_calls ELSE 0),
             total_calls)

Max(S) == CHOOSE x \in S : \A y \in S : x >= y

\* the CTE location_stats: one row per non-null address with 10 calls or more
location_stats(calls, start_date, end_date) ==
    LET Mine(a, r) == /\ InWindow(r, start_date, end_date)
                      /\ r.address # NULL
                      /\ r.address = a
        addrs == {r.address : r \in {x \in Rows(calls) :
                      InWindow(x, start_date, end_date) /\ x.address # NULL}}
        Row(a) ==
            [address |-> a,
             total_calls |-> CountWhere(calls, LAMBDA r : Mine(a, r)),
             severe_calls |-> CountWhere(calls,
                                 LAMBDA r : Mine(a, r) /\ r.priority <= SeverePriority),
             sum_priority |-> SumWhere(calls, LAMBDA r : Mine(a, r), LAMBDA r : r.priority),
             days_since_last |->
                 DATEDIFF(Today, DATE(Max({r.call_datetime :
                                             r \in {x \in Rows(calls) : Mine(a, x)}})))]
    IN  {row \in {Row(a) : a \in addrs} : row.total_calls >= RiskMinCalls}

risk_bins == <<0, 7000, 8000, 9000>>          \* [0, 70, 80, 90, inf) in hundredths
risk_labels == <<"Lower Risk", "Moderate Risk", "High Risk", "Critical">>
NaN == "NaN"

\* pd.cut with right=False: bins closed on the left
pd_cut_left(x) ==
    LET In(i) == /\ risk_bins[i] <= x
                 /\ i < Len(risk_bins) => x < risk_bins[i + 1]
    IN  IF \E i \in 1..Len(risk_bins) : In(i)
        THEN risk_labels[CHOOSE i \in 1..Len(risk_bins) : In(i)]
        ELSE NaN

\* pd.cut(x, bins=[0, 70, 80, 90, inf], labels=...): bins closed on the right,
\* the lowest edge not included
pd_cut(x) ==
    LET In(i) == /\ risk_bins[i] < x
                 /\ i < Len(risk_bins) => x <= risk_bins[i + 1]
    IN  IF \E i \in 1..Len(risk_bins) : In(i)
        THEN risk_labels[CHOOSE i \in 1..Len(risk_bins) : In(i)]
        ELSE NaN

\* df['risk_category'] = pd.cut(df['risk_score'], ...)
add_risk_category(df) ==
    [i \in 1..Len(df) |->
        [address |-> df[i].address, total_calls |-> df[i].total_calls,
         severe_calls |-> df[i].severe_calls, days_since_last |-> df[i].days_since_last,
         risk_score |-> df[i].risk_score, risk_category |-> pd_cut(df[i].risk_score)]]

\* the SQL query of load_risk_data
risk_query(calls, start_date, end_date) ==
    LET rows == {[address |-> st.address, total_calls |-> st.total_calls,
                  severe_calls |-> st.severe_calls, days_since_last |-> st.days_since_last,
                  risk_score |-> risk_score(st.total_calls, st.severe_calls,
                                            st.sum_priority, st.days_since_last)] :
                    st \in location_stats(calls, start_date, end_date)}
        Less(x, y) == \/ x.risk_score > y.risk_score
                      \/ x.risk_score = y.risk_score /\ x.address < y.address
    IN  Limit(OrderByLess(rows, Less), RiskLimit)

load_risk_data(calls, start_date, end_date) ==
    add_risk_category(risk_query(calls, start_date, end_date))

----------------------------------------------------------------------------
(* load_pareto_data and the 80/20 metric; a percentage is the fraction num / den *)

ParetoLimit == 50
ParetoThreshold == 80

\* the SQL query of load_pareto_data
pareto_query(calls, start_date, end_date) ==
    LET Mine(a, r) == /\ InWindow(r, start_date, end_date)
                      /\ r.address # NULL
                      /\ r.address = a
        addrs == {r.address : r \in {x \in Rows(calls) :
                      InWindow(x, start_date, end_date) /\ x.address # NULL}}
        rows == {[address |-> a, calls |-> CountWhere(calls, LAMBDA r : Mine(a, r))] :
                    a \in addrs}
        Less(x, y) == \/ x.calls > y.calls
                      \/ x.calls = y.calls /\ x.address < y.address
    IN  Limit(OrderByLess(rows, Less), ParetoLimit)

\* df['calls'].cumsum()
RECURSIVE cumsum(_, _)
cumsum(df, i) == IF i = 0 THEN 0 ELSE df[i].calls + cumsum(df, i - 1)

\* rank, cumulative_calls and cumulative_pct = cumulative_calls / df['calls'].sum() * 100
load_pareto_data(calls, start_date, end_date) ==
    LET df == pareto_query(calls, start_date, end_date)
        total == cumsum(df, Len(df))
    IN  [i \in 1..Len(df) |->
            [address |-> df[i].address,
             calls |-> df[i].calls,
             rank |-> i,
             cumulative_calls |-> cumsum(df, i),
             cumulative_pct |-> [num |-> 100 * cumsum(df, i), den |-> total]]]

\* pct <= 80 and pct >= 80 on fractions
PctLeq(pct, t) == pct.num <= t * pct.den
PctGeq(pct, t) == pct.num >= t * pct.den

\* pareto_data[pareto_data['cumulative_pct'] <= 80].shape[0]
locations_for_80pct_of(df) ==
    Cardinality({i \in 1..Len(df) : PctLeq(df[i].cumulative_pct, ParetoThreshold)})

----------------------------------------------------------------------------
(* load_call_type_data *)

CallTypeLimit == 15

load_call_type_data(calls, start_date, end_date) ==
    LET Mine(t, r) == /\ InWindow(r, start_date, end_date)
                      /\ r.call_type # NULL
                      /\ r.call_type = t
        types == {r.call_type : r \in {x \in Rows(calls) :
                      InWindow(x, start_date, end_date) /\ x.call_type # NULL}}
        Row(t) ==
            LET n == CountWhere(calls, LAMBDA r : Mine(t, r))
            IN  [call_type |-> t,
                 total_calls |-> n,
                 avg_priority |-> [num |-> SumWhere(calls, LAMBDA r : Mine(t, r),
                                                    LAMBDA r : r.priority),
                                   den |-> n],
                 severe_count |-> CountWhere(calls,
                                     LAMBDA r : Mine(t, r) /\ r.priority <= SeverePriority)]
        Less(x, y) == \/ x.total_calls > y.total_calls
                      \/ x.total_calls = y.total_calls /\ x.call_type < y.call_type
    IN  Limit(OrderByLess({Row(t) : t \in types}, Less), CallTypeLimit)

----------------------------------------------------------------------------
(* load_response_time_data; percentiles are held in tenths of a minute *)

MinResponse == 0
MaxResponse == 120
ResponseMinCalls == 50
ResponseLimit == 10

response_time(r) == TIMESTAMPDIFF_MINUTE(r.call_datetime, r.dispatch_datetime)

\* the WHERE clause with the response time bounded below only
QualifiesNoUpper(r, start_date, end_date) ==
    /\ InWindow(r, start_date, end_date)
    /\ r.dispatch_datetime # NULL
    /\ MinResponse <= response_time(r)

\* the WHERE clause of both queries
Qualifies(r, start_date, end_date) ==
    /\ InWindow(r, start_date, end_date)
    /\ r.dispatch_datetime # NULL
    /\ MinResponse <= response_time(r)
    /\ response_time(r) <= MaxResponse

\* the distinct records of one call_type that pass the WHERE clause (NULL is
\* a group of GROUP BY like any other)
TypeGroup(calls, t, start_date, end_date) ==
    {r \in Rows(calls) : Qualifies(r, start_date, end_date) /\ r.call_type = t}

\* COUNT(*) of the group
GroupCount(calls, g) == SumOver(g, [r \in g |-> CopiesIn(r, calls)])

\* the number of rows of the group with a response time below v
Below(calls, g, v) ==
    LET lower == {r \in g : response_time(r) < v}
    IN  SumOver(lower, [r \in lower |-> CopiesIn(r, calls)])

\* the i-th smallest response time of the group, i = 0 .. n-1
NthSmallest(calls, g, i) ==
    Max({response_time(r) : r \in {x \in g : Below(calls, g, response_time(x)) <= i}})

\* ROUND(PERCENTILE_CONT(a / b) WITHIN GROUP (ORDER BY response_time), 1):
\* linear interpolation at the position (a / b) * (n - 1)
PERCENTILE_CONT(calls, g, a, b) ==
    LET n == GroupCount(calls, g)
        f == (a * (n - 1)) \div b
        m == (a * (n - 1)) % b
        lo == NthSmallest(calls, g, f)
        hi == IF m = 0 THEN lo ELSE NthSmallest(calls, g, f + 1)
    IN  RoundDiv(10 * (b * lo + m * (hi - lo)), b)

\* ROUND(PERCENT_RANK() OVER (PARTITION BY call_type ORDER BY response_time) * 100)
percent_rank(calls, g, r) ==
    LET n == GroupCount(calls, g)
    IN  IF n = 1 THEN 0 ELSE RoundDiv(100 * Below(calls, g, response_time(r)), n - 1)

\* ROUND(AVG(CASE WHEN percent_rank = pct THEN response_time END), 1)
RankPercentile(calls, g, pct) ==
    LET at == {r \in g : percent_rank(calls, g, r) = pct}
    IN  IF at = {} THEN NULL
        ELSE RoundDiv(10 * SumOver(at, [r \in at |-> CopiesIn(r, calls) * response_time(r)]),
                      GroupCount(calls, at))

\* query when primary, alternative_query otherwise
response_query(calls, start_date, end_date, primary) ==
    LET types == {r.call_type : r \in {x \in Rows(calls) : Qualifies(x, start_date, end_date)}}
        Row(t) ==
            LET g == TypeGroup(calls, t, start_date, end_date)
            IN  IF primary
                THEN [call_type |-> t, total_calls |-> GroupCount(calls, g),
                      p50 |-> PERCENTILE_CONT(calls, g, 50, 100),
                      p75 |-> PERCENTILE_CONT(calls, g, 75, 100),
                      p90 |-> PERCENTILE_CONT(calls, g, 90, 100),
                      p95 |-> PERCENTILE_CONT(calls, g, 95, 100)]
                ELSE [call_type |-> t, total_calls |-> GroupCount(calls, g),
                      p50 |-> RankPercentile(calls, g, 50),
                      p75 |-> RankPercentile(calls, g, 75),
                      p90 |-> RankPercentile(calls, g, 90),
                      p95 |-> RankPercentile(calls, g, 95)]
        rows == {row \in {Row(t) : t \in types} : row.total_calls >= ResponseMinCalls}
        \* ORDER BY p90 DESC: NULL is the lowest value
        Less(x, y) == \/ x.p90 > y.p90
                      \/ x.p90 = y.p90 /\ x.call_type < y.call_type
    IN  Limit(OrderByLess(rows, Less), ResponseLimit)

\* the function with no except clause: what the primary query raises leaves it
load_response_time_data_no_fallback(calls, start_date, end_date, primary_raises, alternative_raises) ==
    IF ~primary_raises
    THEN [raised |-> FALSE, df |-> response_query(calls, start_date, end_date, TRUE)]
    ELSE [raised |-> TRUE, df |-> <<>>]

\* try: df = pd.read_sql(query, ...); except: df = pd.read_sql(alternative_query,
\* ...); return df.  primary_raises and alternative_raises tell whether the
\* data source rejects the query; an exception of the alternative query is
\* not caught and leaves the function
load_response_time_data(calls, start_date, end_date, primary_raises, alternative_raises) ==
    IF ~primary_raises
    THEN [raised |-> FALSE, df |-> response_query(calls, start_date, end_date, TRUE)]
    ELSE IF ~alternative_raises
         THEN [raised |-> FALSE, df |-> response_query(calls, start_date, end_date, FALSE)]
         ELSE [raised |-> TRUE, df |-> <<>>]

----------------------------------------------------------------------------
(* The script: one run per session at a time, the sessions of the process   *)
(* share the cached connection and the data cache                           *)

Sessions == {1, 2}
DateRanges == {<<DefaultStart, DefaultEnd>>, <<DefaultStart, DefaultStart>>}
MaxRuns == 2

\* @st.cache_data(ttl=300), in seconds
CacheTTL == 300

\* the load_* calls of the script, in its order
LoadOrder == <<"monthly", "call_type", "heatmap", "risk", "response_time", "pareto", "chain">>
Aggregators == {LoadOrder[i] : i \in 1..Len(LoadOrder)}

\* the arguments the st.cache_data entries are keyed by (_conn is not hashed)
Keys == Aggregators \X DateRanges

\* source: whether the last load_* call of the run was answered by the cache
\* or by running its query
IdleRun == [pc |-> "idle", range |-> <<DefaultStart, DefaultEnd>>, loaded |-> 0,
            source |-> "none", result |-> "none", raised |-> {}, views |-> {}, n |-> 0]

\* @st.cache_data(ttl=300) with the entry kept for the whole of the ttl
cache_hit_inclusive(w, key) ==
    \E e \in w.cache : e.key = key /\ now - e.at <= CacheTTL

\* @st.cache_data(ttl=300): the entry of the key is returned while it is
\* younger than the ttl
cache_hit(w, key) ==
    \E e \in w.cache : e.key = key /\ now - e.at < CacheTTL

\* the entry of the key is written, in place of the one it had
cache_store(w, key) ==
    {e \in w.cache : e.key # key} \cup {[key |-> key, at |-> now]}

\* if st.sidebar.button("Refresh Data"): st.cache_data.clear(); st.rerun()
refresh_data(w, r) ==
    [w |-> [w EXCEPT !.cache = {}],
     r |-> [r EXCEPT !.pc = "connect"]]

\* @st.cache_resource get_database_connection: the first call connects, and
\* its return value, the connection or None, is what every later call gets
get_database_connection(w) ==
    IF w.conn = "uncached" THEN (IF db_up THEN "open" ELSE "none") ELSE w.conn

\* conn = get_database_connection(); if conn is None: st.error(...); st.stop()
connect(w, r) ==
    LET conn == get_database_connection(w)
    IN  [w |-> [w EXCEPT !.conn = conn],
         r |-> IF conn = "none"
               THEN [r EXCEPT !.pc = "idle", !.result = "no_connection"]
               ELSE [r EXCEPT !.pc = "load", !.loaded = 0]]

\* one load_* call inside the try block: a cached result is returned, else
\* the query runs on conn; it raises on a closed connection or when the data
\* source rejects it, and the except clause ends the run: st.error(); st.stop()
load(w, r) ==
    LET a == LoadOrder[r.loaded + 1]
        key == <<a, r.range>>
        next == [r EXCEPT !.loaded = r.loaded + 1,
                          !.pc = IF r.loaded + 1 = Len(LoadOrder) THEN "render" ELSE "load"]
    IN  IF cache_hit(w, key)
        THEN [w |-> w, r |-> [next EXCEPT !.source = "cache"]]
        ELSE IF w.conn # "open" \/ a \in broken
             THEN [w |-> w,
                   r |-> [r EXCEPT !.pc = "idle", !.result = "load_error", !.source = "query",
                                   !.raised = {a}, !.views = {}]]
             ELSE [w |-> [w EXCEPT !.cache = cache_store(w, key)],
                   r |-> [next EXCEPT !.source = "query"]]

\* the key metrics and the seven visualizations, each from its data frame
render(w, r) ==
    [w |-> w, r |-> [r EXCEPT !.pc = "close", !.views = Aggregators]]

\* if conn: conn.close()
close(w, r) ==
    [w |-> [w EXCEPT !.conn = "closed"],
     r |-> [r EXCEPT !.pc = "idle", !.result = "rendered"]]

\* the next statement of the run r in the process state w
Step(w, r) ==
    CASE r.pc = "refresh" -> refresh_data(w, r)
      [] r.pc = "connect" -> connect(w, r)
      [] r.pc = "load"    -> load(w, r)
      [] r.pc = "render"  -> render(w, r)
      [] r.pc = "close"   -> close(w, r)

\* the run r carried to its end with no other session in the process
RECURSIVE RunAlone(_, _)
RunAlone(w, r) ==
    IF r.pc = "idle" THEN [w |-> w, r |-> r]
    ELSE LET out == Step(w, r) IN RunAlone(out.w, out.r)

World == [conn |-> connection, cache |-> data_cache]

\* no session has run yet
AppStart ==
    /\ connection = "uncached"
    /\ data_cache = {}
    /\ now = 0
    /\ computed_at = [k \in Keys |-> NULL]
    /\ fresh = {}
    /\ run = [u \in Sessions |-> IdleRun]
    /\ iso = [u \in Sessions |-> [w |-> [conn |-> "uncached", cache |-> {}], r |-> IdleRun]]

\* the script is not run at all
AppIdle ==
    /\ db_up = TRUE
    /\ broken = {}
    /\ users = {}
    /\ AppStart

----------------------------------------------------------------------------
(* State machine of the data views: the table is filled, then a view is loaded *)

DataIdle ==
    /\ police_calls = EmptyBag
    /\ phase = "fill"
    /\ heatmap_data = <<>>
    /\ heatmap_pivot = EmptyPivot
    /\ risk_data = <<>>
    /\ call_type_data = <<>>
    /\ response_data = <<>>
    /\ pareto_data = <<>>
    /\ locations_for_80pct = NULL
    /\ chain_data = <<>>
    /\ response_call = NULL

DataInit == DataIdle /\ AppIdle

\* the data source receives the records of batch
AddBatch(batch) ==
    /\ phase = "fill"
    /\ police_calls' = police_calls (+) batch
    /\ UNCHANGED <<response_call, phase, heatmap_data, heatmap_pivot, risk_data, call_type_data,
                   response_data, pareto_data, locations_for_80pct, chain_data>>
    /\ UNCHANGED appVars

\* the data source receives k more records equal to r
AddCalls(r, k) ==
    /\ phase = "fill"
    /\ police_calls' = Insert(police_calls, r, k)
    /\ UNCHANGED <<response_call, phase, heatmap_data, heatmap_pivot, risk_data, call_type_data,
                   response_data, pareto_data, locations_for_80pct, chain_data>>
    /\ UNCHANGED appVars

----------------------------------------------------------------------------
(* Heat map: calls that differ in their time only *)

MaxCopies == 2

HeatTimes ==
    { At(0, 0, 0),        \* Monday 00:00, the first instant of the window
      At(1, 3, 0),        \* Tuesday 03:00
      At(8, 3, 30),       \* Tuesday 03:30, a week later: the same cell
      At(2, 3, 0),        \* Wednesday 03:00
      At(6, 23, 59),      \* Sunday 23:59
      At(330, 0, 0) + 1 } \* one second after the end of the window

HeatCall(t) == Call(1, 1, t, NULL, 3)

InsertHeat ==
    \E t \in HeatTimes :
        /\ CopiesIn(HeatCall(t), police_calls) < MaxCopies
        /\ AddCalls(HeatCall(t), 1)

LoadHeat ==
    /\ phase = "fill"
    /\ phase' = "heatmap"
    /\ heatmap_data' = load_heatmap_data(police_calls, DefaultStart, DefaultEnd)
    /\ heatmap_pivot' = IF heatmap_data' # <<>> THEN heatmap_pivot_of(heatmap_data')
                                                ELSE EmptyPivot
    /\ UNCHANGED <<response_call, police_calls, risk_data, call_type_data, response_data,
                   pareto_data, locations_for_80pct, chain_data>>
    /\ UNCHANGED appVars

NextHeat == InsertHeat \/ LoadHeat

SpecHeat == DataInit /\ [][NextHeat]_vars

\* the calls of the window that fall in hour h of the d-th day of the week
InCell(r, h, d) ==
    /\ InWindow(r, DefaultStart, DefaultEnd)
    /\ \E w \in 0..(DefaultEnd \div 7) :
          LET from == At(7 * w + d - 1, h, 0)
          IN  from <= r.call_datetime /\ r.call_datetime < from + SecondsPerHour

CellCalls(h, d) == CountWhere(police_calls, LAMBDA r : InCell(r, h, d))

HeatRows(h, d) ==
    {i \in 1..Len(heatmap_data) :
        heatmap_data[i].hour = h /\ heatmap_data[i].day = day_order[d]}

\* C3 as stated: load_heatmap_data returns a dense 24 x 7 grid, exactly one
\* row for each hour 0..23 and each day Monday..Sunday, and a pair with no
\* calls in the range has a row with calls = 0.
C3_DenseGrid ==
    phase = "heatmap" =>
        \A h \in 0..(HoursPerDay - 1), d \in 1..7 :
            /\ Cardinality(HeatRows(h, d)) = 1
            /\ \A i \in HeatRows(h, d) : heatmap_data[i].calls = CellCalls(h, d)

\* C3 amended: load_heatmap_data returns exactly one row for each (hour, day)
\* pair that has at least one call in the range, with calls equal to the
\* number of those calls, and no row for a pair without calls; in the pivot
\* such a pair is NaN when its hour and its day both occur, and otherwise its
\* row or column is missing.
C3_SparseGrid ==
    phase = "heatmap" =>
        \A h \in 0..(HoursPerDay - 1), d \in 1..7 :
            /\ Cardinality(HeatRows(h, d)) = IF CellCalls(h, d) > 0 THEN 1 ELSE 0
            /\ \A i \in HeatRows(h, d) : heatmap_data[i].calls = CellCalls(h, d)
            /\ <<h, day_order[d]>> \in DOMAIN heatmap_pivot.values =>
                  heatmap_pivot.values[<<h, day_order[d]>>] =
                      IF CellCalls(h, d) > 0 THEN CellCalls(h, d) ELSE NULL

\* a loaded heat map with two calls in the Tuesday 03h cell, a Monday column,
\* and no call on Monday 03h
C3_Witness ==
    /\ phase = "heatmap"
    /\ \E i \in 1..Len(heatmap_data) :
          /\ heatmap_data[i].hour = 3
          /\ heatmap_data[i].day = "Tuesday"
          /\ heatmap_data[i].calls = 2
    /\ <<3, "Monday">> \in DOMAIN heatmap_pivot.values
    /\ heatmap_pivot.values[<<3, "Monday">>] = NULL
    /\ CellCalls(3, 1) = 0


----------------------------------------------------------------------------
(* Incident chains: calls at two addresses and at no address, a day or more apart *)

MaxChainCalls == 4

ChainTimes ==
    { At(10, 0, 0),
      At(11, 0, 0),       \* 24h00 after the first
      At(12, 0, 30),      \* 24h30 after the second
      At(13, 1, 29),      \* 24h59 after the third
      At(15, 1, 29),      \* 48h00 after the fourth
      At(340, 0, 0) }     \* after the end of the window

ChainCall(a, t) == Call(a, 1, t, NULL, 1 + (DATE(t) % 5))

InsertChain ==
    \E a \in {1, 2, NULL}, t \in ChainTimes :
        /\ BagCardinality(police_calls) < MaxChainCalls
        /\ AddCalls(ChainCall(a, t), 1)

LoadChain ==
    /\ phase = "fill"
    /\ phase' = "chain"
    /\ chain_data' = load_incident_chain_data(police_calls, DefaultStart, DefaultEnd)
    /\ UNCHANGED <<response_call, police_calls, heatmap_data, heatmap_pivot, risk_data, call_type_data,
                   response_data, pareto_data, locations_for_80pct>>
    /\ UNCHANGED appVars

NextChain == InsertChain \/ LoadChain

SpecChain == DataInit /\ [][NextChain]_vars

\* the in-window calls at address a that are at most 24 hours from the call
\* before or after them at a
ExactIncidents(a) ==
    LET mine == {x \in Expand(police_calls) :
                    InWindow(x[1], DefaultStart, DefaultEnd) /\ x[1].address = a}
        Near(x) == \E y \in mine \ {x} :
                      /\ x[1].call_datetime - y[1].call_datetime <= ChainHours * SecondsPerHour
                      /\ y[1].call_datetime - x[1].call_datetime <= ChainHours * SecondsPerHour
    IN  Cardinality({x \in mine : Near(x)})

\* C4 as stated: every address in the output of load_incident_chain_data has
\* incidents_24h equal to the number of its in-window calls that are at most
\* 24 hours from the preceding or following call at the address, and that
\* number is at least 3.
C4_ExactWindow ==
    phase = "chain" =>
        \A i \in 1..Len(chain_data) :
            /\ chain_data[i].address # NULL
            /\ chain_data[i].incidents_24h = ExactIncidents(chain_data[i].address)
            /\ ExactIncidents(chain_data[i].address) >= ChainMinIncidents

\* C4, second part as stated: an address with exactly two in-window calls
\* never appears.  It holds.
C4_TwoCallsAbsent ==
    phase = "chain" =>
        \A i \in 1..Len(chain_data) :
            CountWhere(police_calls,
                LAMBDA r : InWindow(r, DefaultStart, DefaultEnd)
                           /\ r.address = chain_data[i].address) >= ChainMinIncidents


----------------------------------------------------------------------------
(* Risk scores: batches of equal calls at address 1, at address 2 and at no address *)

MaxKinds == 3
BatchSizes == {1, 9, 10}

RiskCalls ==
    {Call(1, 1, t, NULL, p) :
        t \in { At(329, 23, 59),     \* 6 days before Today
                At(328, 12, 0),      \* 7 days before Today
                At(331, 0, 0) },     \* after the end of the window
        p \in {2, 3, 5}}
    \cup {Call(2, 1, At(300, 8, 0), NULL, 1), Call(NULL, 1, At(329, 8, 0), NULL, 2)}

InsertRisk ==
    \E r \in RiskCalls, k \in BatchSizes :
        /\ CopiesIn(r, police_calls) = 0
        /\ Cardinality(Rows(police_calls)) < MaxKinds
        /\ AddCalls(r, k)

LoadRisk ==
    /\ phase = "fill"
    /\ phase' = "risk"
    /\ risk_data' = load_risk_data(police_calls, DefaultStart, DefaultEnd)
    /\ UNCHANGED <<response_call, police_calls, heatmap_data, heatmap_pivot, call_type_data,
                   response_data, pareto_data, locations_for_80pct, chain_data>>
    /\ UNCHANGED appVars

NextRisk == InsertRisk \/ LoadRisk

SpecRisk == DataInit /\ [][NextRisk]_vars

\* the in-window calls at address a, one by one
CallsAt(a) ==
    {x \in Expand(police_calls) :
        InWindow(x[1], DefaultStart, DefaultEnd) /\ x[1].address = a}

\* k = round(num / den * 100), stated without computing the quotient
IsRounded(k, num, den) ==
    /\ 2 * k * den - den <= 2 * 100 * num
    /\ 2 * 100 * num < 2 * k * den + den

\* C6: every row of load_risk_data belongs to a non-null address with at
\* least 10 in-window calls, and its risk_score is
\* round(total_calls*0.3 + severe_calls*2.0 + avg_priority*10
\*       + (15 if days_since_last < 7 else 0), 2)
\* with severe_calls the calls of priority <= 2, avg_priority the mean
\* priority and days_since_last the days from the latest call to today.
C6_RiskScore ==
    phase = "risk" =>
        \A i \in 1..Len(risk_data) :
            LET row == risk_data[i]
                mine == CallsAt(row.address)
                n == Cardinality(mine)
                severe == Cardinality({x \in mine : x[1].priority \in {1, 2}})
                total_priority == SumOver(mine, [x \in mine |-> x[1].priority])
                recent == \E x \in mine : x[1].call_datetime >= Midnight(Today - 6)
                \* (0.3 n + 2 severe + 10 total_priority / n + bonus) as tenths over n
                num == 3 * n * n + 20 * severe * n + 100 * total_priority
                       + (IF recent THEN 150 * n ELSE 0)
            IN  /\ row.address # NULL
                /\ n >= 10
                /\ row.total_calls = n
                /\ row.severe_calls = severe
                /\ IsRounded(row.risk_score, num, 10 * n)

\* a scored address with 19 calls of mixed priority (mean 47/19), the latest
\* of them exactly 7 days old, next to an address below the threshold
C6_Witness ==
    /\ phase = "risk"
    /\ \E i \in 1..Len(risk_data) :
          /\ risk_data[i].address = 1
          /\ risk_data[i].total_calls = 19
          /\ risk_data[i].severe_calls = 10
          /\ risk_data[i].days_since_last = 7
          /\ risk_data[i].risk_score = 570 + 2000 + 2474
    /\ CopiesIn(Call(2, 1, At(300, 8, 0), NULL, 1), police_calls) = 9
    /\ \A i \in 1..Len(risk_data) : risk_data[i].address # 2


----------------------------------------------------------------------------
(* Risk categories: one scored row with any score of the range, then pd.cut *)

MaxScore == 10000         \* scores 0.00 .. 100.00

ScoredRow(x) == [address |-> 1, total_calls |-> RiskMinCalls, severe_calls |-> 0,
                 days_since_last |-> RecentDays, risk_score |-> x]

CutInit ==
    /\ police_calls = EmptyBag
    /\ phase = "scored"
    /\ heatmap_data = <<>>
    /\ heatmap_pivot = EmptyPivot
    /\ risk_data \in {<<ScoredRow(x)>> : x \in 0..MaxScore}
    /\ call_type_data = <<>>
    /\ response_data = <<>>
    /\ pareto_data = <<>>
    /\ locations_for_80pct = NULL
    /\ chain_data = <<>>
    /\ response_call = NULL
    /\ AppIdle

Categorize ==
    /\ phase = "scored"
    /\ phase' = "category"
    /\ risk_data' = add_risk_category(risk_data)
    /\ UNCHANGED <<response_call, police_calls, heatmap_data, heatmap_pivot, call_type_data,
                   response_data, pareto_data, locations_for_80pct, chain_data>>
    /\ UNCHANGED appVars

NextCut == Categorize

SpecCut == CutInit /\ [][NextCut]_vars

\* the bands (0,70], (70,80], (80,90], (90,inf) that hold the score x
BandsOf(x) ==
    {l \in {"Lower Risk", "Moderate Risk", "High Risk", "Critical"} :
        \/ l = "Lower Risk"    /\ 0 < x    /\ x <= 7000
        \/ l = "Moderate Risk" /\ 7000 < x /\ x <= 8000
        \/ l = "High Risk"     /\ 8000 < x /\ x <= 9000
        \/ l = "Critical"      /\ 9000 < x}

----------------------------------------------------------------------------
(* Pareto: addresses 1, 2, ... named in the order of their call counts, and *)
(* calls at no address                                                      *)

MaxAddrs == 51
MaxCallsPerAddr == 2

ParetoCall(a) == Call(a, 1, At(100, 12, 0), NULL, 3)

NextAddr == Cardinality({r \in Rows(police_calls) : r.address # NULL}) + 1

InsertPareto ==
    \E k \in 1..MaxCallsPerAddr :
        /\ NextAddr <= MaxAddrs
        /\ NextAddr > 1 => k <= CopiesIn(ParetoCall(NextAddr - 1), police_calls)
        /\ AddCalls(ParetoCall(NextAddr), k)

InsertNoAddress ==
    /\ CopiesIn(ParetoCall(NULL), police_calls) = 0
    /\ AddCalls(ParetoCall(NULL), 1)

LoadPareto ==
    /\ phase = "fill"
    /\ phase' = "pareto"
    /\ pareto_data' = load_pareto_data(police_calls, DefaultStart, DefaultEnd)
    /\ locations_for_80pct' = IF pareto_data' # <<>>
                                 THEN locations_for_80pct_of(pareto_data')
                                 ELSE NULL
    /\ UNCHANGED <<response_call, police_calls, heatmap_data, heatmap_pivot, risk_data, call_type_data,
                   response_data, chain_data>>
    /\ UNCHANGED appVars

NextPareto == InsertPareto \/ InsertNoAddress \/ LoadPareto

SpecPareto == DataInit /\ [][NextPareto]_vars

\* the in-window calls of all non-null addresses
GrandTotal ==
    CountWhere(police_calls,
        LAMBDA r : InWindow(r, DefaultStart, DefaultEnd) /\ r.address # NULL)

\* C7 as stated: cumulative_pct is non-decreasing in rank and at every rank R
\* it is 100 times the calls of the addresses ranked 1..R divided by the
\* grand total of in-window calls over all non-null addresses.
C7_ShareOfGrandTotal ==
    phase = "pareto" =>
        /\ \A i \in 1..Len(pareto_data) :
              pareto_data[i].cumulative_pct.num * GrandTotal
                  = 100 * pareto_data[i].cumulative_calls * pareto_data[i].cumulative_pct.den
        /\ \A i \in 2..Len(pareto_data) :
              pareto_data[i - 1].cumulative_pct.num * pareto_data[i].cumulative_pct.den
                  <= pareto_data[i].cumulative_pct.num * pareto_data[i - 1].cumulative_pct.den

\* C8 as stated: for every non-empty Pareto table the metric "Locations for
\* 80% of Calls" is the least rank R with cumulative_pct(R) >= 80.
C8_LeastRank ==
    (phase = "pareto" /\ pareto_data # <<>>) =>
        /\ locations_for_80pct \in 1..Len(pareto_data)
        /\ PctGeq(pareto_data[locations_for_80pct].cumulative_pct, ParetoThreshold)
        /\ \A i \in 1..(locations_for_80pct - 1) :
              ~PctGeq(pareto_data[i].cumulative_pct, ParetoThreshold)


----------------------------------------------------------------------------
(* Call types: types 1, 2, ... and the null type, each with one of a few    *)
(* batches of calls; the types are named in the order of their batches      *)

MaxTypes == 11

Received == At(50, 12, 0)

\* a call of type t dispatched min minutes and sec seconds after it was received
Dispatched(t, min, sec) ==
    Call(1, t, Received, Received + min * SecondsPerMinute + sec, 3)
NeverDispatched(t) == Call(1, t, Received, NULL, 3)

Batches(t) ==
    << \* 50 calls answered in 120 minutes
       [x \in {Dispatched(t, 120, 0)} |-> 50],
       \* 49 calls answered at once and one in 120 minutes 59 seconds
       (Dispatched(t, 0, 0) :> 49) @@ (Dispatched(t, 120, 59) :> 1),
       \* 49 calls answered in 5 minutes and one dispatched 59 seconds early
       (Dispatched(t, 5, 0) :> 49) @@ (Dispatched(t, 0, -59) :> 1),
       \* 49 calls in 60 minutes, one in 121, one a minute early, one never dispatched
       (Dispatched(t, 60, 0) :> 49) @@ (Dispatched(t, 121, 0) :> 1)
           @@ (Dispatched(t, -1, 0) :> 1) @@ (NeverDispatched(t) :> 1) >>

OfType(t) == {r \in Rows(police_calls) : r.call_type = t}

BatchOf(t) == CHOOSE b \in 1..Len(Batches(t)) : OfType(t) = DOMAIN Batches(t)[b]

NextType == Cardinality({r.call_type : r \in {x \in Rows(police_calls) : x.call_type # NULL}}) + 1

InsertType ==
    \E b \in 1..Len(Batches(NextType)) :
        /\ NextType <= MaxTypes
        /\ NextType > 1 => b <= BatchOf(NextType - 1)
        /\ AddBatch(Batches(NextType)[b])

InsertNoType ==
    \E b \in 1..Len(Batches(NULL)) :
        /\ OfType(NULL) = {}
        /\ AddBatch(Batches(NULL)[b])

LoadTypes ==
    \E supported \in BOOLEAN :
        /\ phase = "fill"
        /\ phase' = IF supported THEN "types" ELSE "types_alternative"
        /\ call_type_data' = load_call_type_data(police_calls, DefaultStart, DefaultEnd)
        /\ response_data' = load_response_time_data(police_calls, DefaultStart, DefaultEnd,
                                                     ~supported, FALSE).df
        /\ UNCHANGED <<response_call, police_calls, heatmap_data, heatmap_pivot, risk_data,
                       pareto_data, locations_for_80pct, chain_data>>
        /\ UNCHANGED appVars

NextTypes == InsertType \/ InsertNoType \/ LoadTypes

SpecTypes == DataInit /\ [][NextTypes]_vars

TypesLoaded == phase \in {"types", "types_alternative"}

\* the number of calls of type t with a dispatch time and a response time,
\* in whole minutes, of 0..120: dispatched less than a minute before the
\* call at the earliest and less than 121 minutes after it
QualifyingCalls(t) ==
    CountWhere(police_calls,
        LAMBDA r : /\ r.call_type = t
                   /\ r.dispatch_datetime # NULL
                   /\ r.dispatch_datetime - r.call_datetime > -60
                   /\ r.dispatch_datetime - r.call_datetime < 121 * 60
                   /\ InWindow(r, DefaultStart, DefaultEnd))

TypeCalls(t) == CountWhere(police_calls, LAMBDA r : r.call_type = t)

AllTypes == {r.call_type : r \in Rows(police_calls)}

ResponseTypes == {response_data[i].call_type : i \in 1..Len(response_data)}

C10_NoNullKeys ==
    /\ \A i \in 1..Len(risk_data) : risk_data[i].address # NULL
    /\ \A i \in 1..Len(pareto_data) : pareto_data[i].address # NULL
    /\ \A i \in 1..Len(chain_data) : chain_data[i].address # NULL
    /\ \A i \in 1..Len(call_type_data) : call_type_data[i].call_type # NULL
    /\ \A i \in 1..Len(response_data) : response_data[i].call_type # NULL


----------------------------------------------------------------------------
(* load_response_time_data with a data source that may reject either query *)

MaxFallbackTypes == 2

\* a call of type t received at the first instant of the default range and
\* dispatched min minutes later
FirstInstant(t, min) ==
    Call(1, t, Midnight(DefaultStart), Midnight(DefaultStart) + min * SecondsPerMinute, 3)

FallbackBatches(t) ==
    << \* 50 calls inside the default range, answered in 120 minutes
       [x \in {Dispatched(t, 120, 0)} |-> 50],
       \* 50 calls at the first instant of the range, answered in 10 minutes
       [x \in {FirstInstant(t, 10)} |-> 50],
       \* 49 calls at the first instant of the range, answered in 30 minutes
       [x \in {FirstInstant(t, 30)} |-> 49] >>

InsertResponse ==
    \E t \in 1..MaxFallbackTypes, b \in 1..Len(FallbackBatches(1)) :
        /\ DOMAIN FallbackBatches(t)[b] \cap Rows(police_calls) = {}
        /\ AddBatch(FallbackBatches(t)[b])

\* response_data = load_response_time_data(conn, start_date, end_date); the
\* assignment does not happen when the call raises
LoadResponse ==
    \E range \in DateRanges, primary_raises \in BOOLEAN, alternative_raises \in BOOLEAN :
        LET out == load_response_time_data(police_calls, range[1], range[2],
                                           primary_raises, alternative_raises)
        IN  /\ phase = "fill"
            /\ phase' = "response"
            /\ response_call' = [start_date |-> range[1], end_date |-> range[2],
                                 primary_raises |-> primary_raises,
                                 alternative_raises |-> alternative_raises,
                                 raised |-> out.raised]
            /\ response_data' = IF out.raised THEN response_data ELSE out.df
            /\ UNCHANGED <<police_calls, heatmap_data, heatmap_pivot, risk_data,
                           call_type_data, pareto_data, locations_for_80pct, chain_data>>
            /\ UNCHANGED appVars

NextFallback == InsertResponse \/ LoadResponse

SpecFallback == DataInit /\ [][NextFallback]_vars

\* C12: when the primary query raises and the alternative query does not,
\* load_response_time_data returns the result of the alternative query for
\* the start_date and end_date it was called with; it raises only when both
\* queries raise.
C12_Fallback ==
    phase = "response" =>
        /\ (response_call.primary_raises /\ ~response_call.alternative_raises) =>
               /\ ~response_call.raised
               /\ response_data = response_query(police_calls, response_call.start_date,
                                                 response_call.end_date, FALSE)
        /\ response_call.raised =>
               (response_call.primary_raises /\ response_call.alternative_raises)

\* the primary query raised, and the alternative query returned rows for a
\* one-day range that are not the rows of the default range
C12_Witness ==
    /\ phase = "response"
    /\ response_call.primary_raises
    /\ ~response_call.alternative_raises
    /\ response_call.end_date = DefaultStart
    /\ response_data # <<>>
    /\ response_data # response_query(police_calls, DefaultStart, DefaultEnd, FALSE)

----------------------------------------------------------------------------
(* The sessions of one process: script runs interleaved statement by statement *)

\* a session starts a run: the widgets give the date range and whether
\* Refresh Data was pressed; iso gets the outcome of the same run alone
StartRun(u) ==
    \E range \in DateRanges, pressed \in BOOLEAN :
        LET r == [pc |-> IF pressed THEN "refresh" ELSE "connect", range |-> range,
                  loaded |-> 0, source |-> "none", result |-> "running", raised |-> {},
                  views |-> {}, n |-> run[u].n + 1]
        IN  /\ run[u].pc = "idle"
            /\ run[u].n < MaxRuns
            /\ run' = [run EXCEPT ![u] = r]
            /\ iso' = [iso EXCEPT ![u] = RunAlone(iso[u].w, r)]
            /\ UNCHANGED <<db_up, broken, users, connection, data_cache, now,
                           computed_at, fresh>>
            /\ UNCHANGED dataVars

\* session u executes the statement at pc by the handler Do
Exec(u, at, Do(_, _)) ==
    LET out == Do(World, run[u])
    IN  /\ run[u].pc = at
        /\ connection' = out.w.conn
        /\ data_cache' = out.w.cache
        /\ run' = [run EXCEPT ![u] = out.r]
        /\ UNCHANGED <<db_up, broken, users, now, iso>>
        /\ UNCHANGED dataVars

\* the key of the load_* call session u is at
LoadKey(u) == <<LoadOrder[run[u].loaded + 1], run[u].range>>

RefreshData(u) ==
    /\ Exec(u, "refresh", refresh_data)
    /\ fresh' = {}
    /\ UNCHANGED computed_at

Connect(u) == Exec(u, "connect", connect) /\ UNCHANGED <<computed_at, fresh>>

Load(u) ==
    LET returned == run'[u].source = "query" /\ run'[u].result # "load_error"
    IN  /\ Exec(u, "load", load)
        /\ computed_at' = IF returned THEN [computed_at EXCEPT ![LoadKey(u)] = now]
                                      ELSE computed_at
        /\ fresh' = IF returned THEN fresh \cup {LoadKey(u)} ELSE fresh

Render(u) == Exec(u, "render", render) /\ UNCHANGED <<computed_at, fresh>>
Close(u) == Exec(u, "close", close) /\ UNCHANGED <<computed_at, fresh>>

NextApp ==
    \/ \E u \in users : StartRun(u)
    \/ \E u \in users : RefreshData(u)
    \/ \E u \in users : Connect(u)
    \/ \E u \in users : Load(u)
    \/ \E u \in users : Render(u)
    \/ \E u \in users : Close(u)

\* the time between two script runs: half the ttl, or a second less than the ttl
Elapses == {CacheTTL \div 2, CacheTTL - 1}
MaxTime == 300

\* time passes between script runs: a run is short next to these intervals
Tick ==
    \E d \in Elapses :
        /\ \A u \in users : run[u].pc = "idle"
        /\ now + d <= MaxTime
        /\ now' = now + d
        /\ UNCHANGED <<db_up, broken, users, connection, data_cache, computed_at, fresh,
                       run, iso>>
        /\ UNCHANGED dataVars

NextTimed == NextApp \/ Tick

\* one session; the data source may be down or reject the query of one aggregator
RunInit ==
    /\ DataIdle
    /\ AppStart
    /\ users = {1}
    /\ db_up \in BOOLEAN
    /\ broken \in {{}} \cup {{a} : a \in Aggregators}

SpecRun == RunInit /\ [][NextTimed]_vars

\* two sessions in one process; the data source accepts every query
AppInit ==
    /\ DataIdle
    /\ AppStart
    /\ users = Sessions
    /\ db_up \in BOOLEAN
    /\ broken = {}

SpecApp == AppInit /\ [][NextApp]_vars

\* two sessions in one process while time passes; the data source is up and
\* accepts every query
CacheInit ==
    /\ DataIdle
    /\ AppStart
    /\ users = Sessions
    /\ db_up = TRUE
    /\ broken = {}

SpecCache == CacheInit /\ [][NextTimed]_vars

\* C1 as stated: in a run where the connection was obtained and exactly one
\* of the seven load_* aggregators raised, the views of the other six are
\* rendered in that run.
C1_FaultIsolated ==
    \A u \in users :
        (run[u].pc = "idle" /\ Cardinality(run[u].raised) = 1) =>
            run[u].views = Aggregators \ run[u].raised

\* C2 as stated: the result of a session's run is the same as if the runs of
\* the other session had not happened.
C2_NoInterference ==
    \A u \in users :
        run[u].pc = "idle" =>
            /\ run[u].result = iso[u].r.result
            /\ run[u].views = iso[u].r.views
            /\ run[u].raised = iso[u].r.raised

\* the query of the key returned less than the ttl ago and no Refresh has
\* happened since
Valid(key) ==
    /\ computed_at[key] # NULL
    /\ now - computed_at[key] < CacheTTL
    /\ key \in fresh

\* C11: a load_* call is answered from the cache exactly when the query for
\* the same aggregator, start_date and end_date returned less than 300 s ago
\* with no Refresh since; in every other case the call runs its query.
C11_CacheValidity ==
    [][\A u \in users :
          (run[u].pc = "load" /\ run'[u] # run[u]) =>
              /\ run'[u].source \in {"cache", "query"}
              /\ run'[u].source = "cache" <=> Valid(LoadKey(u))]_vars

\* a load_* call of a later run answered from the cache by an entry that is
\* 299 s old, while another key has been computed and then cleared by Refresh
C11_Witness ==
    \E u \in users :
        /\ run[u].n >= 2
        /\ run[u].pc \in {"load", "render"}
        /\ run[u].source = "cache"
        /\ now - computed_at[<<LoadOrder[run[u].loaded], run[u].range>>] = CacheTTL - 1
        /\ \E k \in Keys : computed_at[k] # NULL /\ k \notin fresh

\* C13 as stated: whenever a run passes the connection it got from
\* get_database_connection to a load_* aggregator, the connection is open.
C13_ConnectionOpen ==
    \A u \in users : run[u].pc = "load" => connection = "open"

====
